---------------------------- MODULE Spec2Model ----------------------------
(***************************************************************************)
(* Keccak-512 over a byte stream (src/src/lib.rs).                         *)
(*                                                                         *)
(* Representation.  A byte is a number in 0..255.  A 64-bit lane is the    *)
(* set of the positions (0 = least significant) of its 1 bits: TLC's       *)
(* integers are 32 bits wide, and XOR, AND-NOT and rotation are exact on   *)
(* this form.  The sponge state is a function 0..24 -> Lane, indexed as    *)
(* the Rust array.  Byte arrays and slices are sequences, so Rust's        *)
(* buf[i] is buf[i + 1] here.                                              *)
(***************************************************************************)
EXTENDS Integers, Sequences, FiniteSets, TLC

LANES == 25
ROUNDS == 24
OUTPUT_LEN == 64
R_BYTES == (LANES * 8) - (2 * OUTPUT_LEN)

(***************************************************************************)
(* Bytes and lanes                                                         *)
(***************************************************************************)
Byte == 0..255
BitPos == 0..63
Lane == SUBSET BitPos
State == [0..(LANES - 1) -> Lane]

\* bit j (0..7) of byte v
ByteBit(v, j) == (v \div (2 ^ j)) % 2 = 1

\* u8 | u8
BitOr(x, y) ==
  LET B(j) == IF ByteBit(x, j) \/ ByteBit(y, j) THEN 2 ^ j ELSE 0
  IN B(0) + B(1) + B(2) + B(3) + B(4) + B(5) + B(6) + B(7)

\* u64 ^ u64
Xor(x, y) == {b \in BitPos : (b \in x) # (b \in y)}

\* !x & y on u64
AndNot(x, y) == {b \in BitPos : b \notin x /\ b \in y}

\* u64::rotate_left
RotateLeft(x, n) == {(b + n) % 64 : b \in x}

\* The u64 a hexadecimal literal of the source denotes, from its bytes, most
\* significant first.
LaneOfBytesBE(bs) == {b \in BitPos : ByteBit(bs[8 - (b \div 8)], b % 8)}

ROUND_CONSTANTS == <<
  LaneOfBytesBE(<<0, 0, 0, 0, 0, 0, 0, 1>>),
  LaneOfBytesBE(<<0, 0, 0, 0, 0, 0, 128, 130>>),
  LaneOfBytesBE(<<128, 0, 0, 0, 0, 0, 128, 138>>),
  LaneOfBytesBE(<<128, 0, 0, 0, 128, 0, 128, 0>>),
  LaneOfBytesBE(<<0, 0, 0, 0, 0, 0, 128, 139>>),
  LaneOfBytesBE(<<0, 0, 0, 0, 128, 0, 0, 1>>),
  LaneOfBytesBE(<<128, 0, 0, 0, 128, 0, 128, 129>>),
  LaneOfBytesBE(<<128, 0, 0, 0, 0, 0, 128, 9>>),
  LaneOfBytesBE(<<0, 0, 0, 0, 0, 0, 0, 138>>),
  LaneOfBytesBE(<<0, 0, 0, 0, 0, 0, 0, 136>>),
  LaneOfBytesBE(<<0, 0, 0, 0, 128, 0, 128, 9>>),
  LaneOfBytesBE(<<0, 0, 0, 0, 128, 0, 0, 10>>),
  LaneOfBytesBE(<<0, 0, 0, 0, 128, 0, 128, 139>>),
  LaneOfBytesBE(<<128, 0, 0, 0, 0, 0, 0, 139>>),
  LaneOfBytesBE(<<128, 0, 0, 0, 0, 0, 128, 137>>),
  LaneOfBytesBE(<<128, 0, 0, 0, 0, 0, 128, 3>>),
  LaneOfBytesBE(<<128, 0, 0, 0, 0, 0, 128, 2>>),
  LaneOfBytesBE(<<128, 0, 0, 0, 0, 0, 0, 128>>),
  LaneOfBytesBE(<<0, 0, 0, 0, 0, 0, 128, 10>>),
  LaneOfBytesBE(<<128, 0, 0, 0, 128, 0, 0, 10>>),
  LaneOfBytesBE(<<128, 0, 0, 0, 128, 0, 128, 129>>),
  LaneOfBytesBE(<<128, 0, 0, 0, 0, 0, 128, 128>>),
  LaneOfBytesBE(<<0, 0, 0, 0, 128, 0, 0, 1>>),
  LaneOfBytesBE(<<128, 0, 0, 0, 128, 0, 128, 8>>) >>

ROTATION_OFFSETS == <<
   1,  3,  6, 10, 15, 21, 28, 36, 45, 55,  2, 14,
  27, 41, 56,  8, 25, 43, 62, 18, 39, 61, 20, 44 >>

PI_LOOKUP == <<
  10,  7, 11, 17, 18,  3,  5, 16,  8, 21, 24,  4,
  15, 23, 19, 13, 12,  2, 20, 14, 22,  9,  6,  1 >>

(***************************************************************************)
(* The permutation.  Each loop of the source is a recursive function of    *)
(* the loop counter applied to the values the loop carries (function       *)
(* application evaluates its argument before the next iteration starts).   *)
(***************************************************************************)

\* theta: for i in 0..5 { d = ...; a[i], a[i+5], .., a[i+20] ^= d }
ThetaFrom[i \in 0..5] ==
  [p \in State \X [0..4 -> Lane] |->
     IF i < 5
     THEN LET a == p[1]
              c == p[2]
              d == Xor(c[(i + 4) % 5], RotateLeft(c[(i + 1) % 5], 1))
          IN ThetaFrom[i + 1][<<[a EXCEPT ![i]      = Xor(@, d),
                                          ![i + 5]  = Xor(@, d),
                                          ![i + 10] = Xor(@, d),
                                          ![i + 15] = Xor(@, d),
                                          ![i + 20] = Xor(@, d)], c>>]
     ELSE p[1]]

Theta(a) ==
  LET c == [i \in 0..4 |->
              Xor(Xor(Xor(Xor(a[i], a[i + 5]), a[i + 10]), a[i + 15]), a[i + 20])]
  IN ThetaFrom[0][<<a, c>>]

\* rho and pi: the loop carries the state and the wanderer
RhoPiFrom[i \in 0..(LANES - 1)] ==
  [p \in State \X Lane |->
     IF i < LANES - 1
     THEN LET a == p[1]
              wanderer == p[2]
              j == PI_LOOKUP[i + 1]
              rotated == RotateLeft(wanderer, ROTATION_OFFSETS[i + 1])
          IN RhoPiFrom[i + 1][<<[a EXCEPT ![j] = rotated], a[j]>>]
     ELSE p[1]]

\* the same loop with the two statements of its body exchanged:
\* a[j] = rotated; wanderer = a[j];
RhoPiFromSwapped[i \in 0..(LANES - 1)] ==
  [p \in State \X Lane |->
     IF i < LANES - 1
     THEN LET a == p[1]
              wanderer == p[2]
              j == PI_LOOKUP[i + 1]
              rotated == RotateLeft(wanderer, ROTATION_OFFSETS[i + 1])
              a1 == [a EXCEPT ![j] = rotated]
          IN RhoPiFromSwapped[i + 1][<<a1, a1[j]>>]
     ELSE p[1]]

RhoPiSwapped(a) == RhoPiFromSwapped[0][<<a, a[1]>>]

RhoPi(a) == RhoPiFrom[0][<<a, a[1]>>]

\* chi: row r covers lanes 5r .. 5r+4; b is the snapshot of the row
ChiFrom[r \in 0..5] ==
  [a \in State |->
     IF 5 * r < LANES
     THEN LET j == 5 * r
              b == [i \in 0..4 |-> a[i + j]]
          IN ChiFrom[r + 1][[a EXCEPT ![j]     = Xor(@, AndNot(b[1], b[2])),
                                       ![j + 1] = Xor(@, AndNot(b[2], b[3])),
                                       ![j + 2] = Xor(@, AndNot(b[3], b[4])),
                                       ![j + 3] = Xor(@, AndNot(b[4], b[0])),
                                       ![j + 4] = Xor(@, AndNot(b[0], b[1]))]]
     ELSE a]

Chi(a) == ChiFrom[0][a]

Iota(a, r) == [a EXCEPT ![0] = Xor(@, ROUND_CONSTANTS[r + 1])]

round(a, r) == Iota(Chi(RhoPi(Theta(a))), r)

keccak_f_from[i \in 0..ROUNDS] ==
  [a \in State |-> IF i < ROUNDS THEN keccak_f_from[i + 1][round(a, i)] ELSE a]

keccak_f(a) == keccak_f_from[0][a]

(***************************************************************************)
(* Lane codec                                                              *)
(***************************************************************************)

\* Addresses are kept modulo the alignment of Lane (u64), which is 8.  A
\* [u8; N] and a Digest have alignment 1, so the address of a buffer or of a
\* Digest can be any of them.
Addrs == 0..7

\* the address is a multiple of the alignment of Lane
Aligned(addr) == addr % 8 = 0

\* Lane::from_le(*(buf.as_ptr() as *const Lane).offset(i)), with buf at
\* address addr.  When the pointer is aligned the read gives the u64 whose
\* little-endian bytes are buf[8i .. 8i+7].  When it is not, the read is
\* undefined behaviour: a build without pointer checks gives the same value,
\* a build with them (debug assertions) aborts the process.
LaneFromLe(buf, i, addr) ==
  {[abort |-> FALSE,
    lane |-> {b \in BitPos : ByteBit(buf[(8 * i) + (b \div 8) + 1], b % 8)}]}
    \cup IF Aligned(addr + (8 * i)) THEN {} ELSE {[abort |-> TRUE, lane |-> {}]}

\* the same read without the little-endian conversion, on a big-endian host
LaneFromBe(buf, i) == {b \in BitPos : ByteBit(buf[(8 * i) + (7 - (b \div 8)) + 1], b % 8)}

\* byte k (0..7) of u64::to_le(x) as stored in memory
LaneByte(x, k) ==
  LET B(j) == IF ((8 * k) + j) \in x THEN 2 ^ j ELSE 0
  IN B(0) + B(1) + B(2) + B(3) + B(4) + B(5) + B(6) + B(7)

xor_lanes_be(a, buf, addr) ==
  {[abort |-> FALSE,
    a |-> [i \in 0..(LANES - 1) |->
             IF i < R_BYTES \div 8 THEN Xor(a[i], LaneFromBe(buf, i)) ELSE a[i]]]}
    \cup IF Aligned(addr) THEN {} ELSE {[abort |-> TRUE, a |-> a]}

\* for i in 0..(R_BYTES >> 3) { a[i] ^= from_le(buf as lanes [i]) }: the
\* outcomes of the call.  Either every read gives its value and the call
\* returns with the lanes in a, or the first read aborts the process (the
\* nine pointers ptr.offset(i) are 8 bytes apart, so they are aligned or
\* misaligned together) and no lane has been changed.
xor_lanes(a, buf, addr) ==
  LET u == [i \in 0..((R_BYTES \div 8) - 1) |-> LaneFromLe(buf, i, addr)]
      value(i) == (CHOOSE o \in u[i] : ~o.abort).lane
  IN {[abort |-> FALSE,
       a |-> [i \in 0..(LANES - 1) |->
                IF i < R_BYTES \div 8 THEN Xor(a[i], value(i)) ELSE a[i]]]}
       \cup IF \E o \in u[0] : o.abort THEN {[abort |-> TRUE, a |-> a]} ELSE {}

(***************************************************************************)
(* Digest                                                                  *)
(***************************************************************************)
Digest == [1..OUTPUT_LEN -> Byte]

zeroed == [k \in 1..OUTPUT_LEN |-> 0]

\* for i in 0..(OUTPUT_LEN / 8) { *(self.0 as *mut Lane).offset(i) = to_le(state[i]) }
\* with the Digest at address addr: the outcomes of the loop.  Either every
\* store is done, or (the Digest not aligned for Lane: undefined behaviour)
\* the first store aborts the process with no byte of the Digest written.
Extract(st, self0, addr) ==
  {[abort |-> FALSE,
    digest |-> [k \in 1..OUTPUT_LEN |->
                  IF (k - 1) \div 8 < OUTPUT_LEN \div 8
                  THEN LaneByte(st[(k - 1) \div 8], (k - 1) % 8)
                  ELSE self0[k]]]}
    \cup IF Aligned(addr) THEN {} ELSE {[abort |-> TRUE, digest |-> self0]}

HexDigit == <<"0", "1", "2", "3", "4", "5", "6", "7",
              "8", "9", "a", "b", "c", "d", "e", "f">>

\* format_args!("{:02x}", byte)
Hex02(byte) == HexDigit[(byte \div 16) + 1] \o HexDigit[(byte % 16) + 1]

\* fmt::LowerHex for Digest: the bytes in order, two digits each
LowerHexFrom[i \in 1..(OUTPUT_LEN + 1)] ==
  [d \in Digest |-> IF i <= OUTPUT_LEN THEN Hex02(d[i]) \o LowerHexFrom[i + 1][d] ELSE ""]

LowerHex(d) == LowerHexFrom[1][d]

\* PartialEq::eq: the zipped bytes in order, false at the first pair that
\* differs; examined counts the pairs compared
EqFrom[i \in 0..OUTPUT_LEN] ==
  [p \in Digest \X Digest |->
     IF i < OUTPUT_LEN
     THEN IF p[1][i + 1] # p[2][i + 1]
          THEN [result |-> FALSE, examined |-> i + 1]
          ELSE EqFrom[i + 1][p]
     ELSE [result |-> TRUE, examined |-> i]]

eq(self0, other) == EqFrom[0][<<self0, other>>]

(***************************************************************************)
(* Padding of the last block                                               *)
(***************************************************************************)

\* the NIST SHA-3 domain byte: last[consumed] = 6
PadSha3(buf) ==
  LET consumed == Len(buf)
      copied == [k \in 1..R_BYTES |-> IF k <= consumed THEN buf[k] ELSE 0]
      marked == [copied EXCEPT ![consumed + 1] = 6]
  IN [marked EXCEPT ![R_BYTES] = BitOr(@, 128)]

\* last[R_BYTES-1] = 0x80 in place of |=
PadAssign(buf) ==
  LET consumed == Len(buf)
      copied == [k \in 1..R_BYTES |-> IF k <= consumed THEN buf[k] ELSE 0]
      marked == [copied EXCEPT ![consumed + 1] = 1]
  IN [marked EXCEPT ![R_BYTES] = 128]

\* let mut last = [0u8; R_BYTES]; copy; last[consumed] = 1; last[R_BYTES-1] |= 0x80
Pad(buf) ==
  LET consumed == Len(buf)
      copied == [k \in 1..R_BYTES |-> IF k <= consumed THEN buf[k] ELSE 0]
      marked == [copied EXCEPT ![consumed + 1] = 1]
  IN [marked EXCEPT ![R_BYTES] = BitOr(@, 128)]

\* let last_block = consumed < R_BYTES
LastBlock(consumed) == consumed < R_BYTES

(***************************************************************************)
(* The input stream and the buffered reader                                *)
(*                                                                         *)
(* A stream is its bytes and the size of the pieces its source hands out:  *)
(* a read returns the bytes up to the end of the current piece, at most    *)
(* the number asked for, and 0 bytes only at end-of-stream.  chunk = 0 is  *)
(* a source with all its bytes at hand, which fills every read: a slice    *)
(* (&[u8]), the tests' source.  Any read may fail.                         *)
(***************************************************************************)
Min(x, y) == IF x < y THEN x ELSE y

\* io::Read::read on the source: the number of bytes returned
ReadCount(inp, pos, want) ==
  IF inp.chunk = 0
  THEN Min(want, Len(inp.data) - pos)
  ELSE Min(want, Min(inp.chunk - (pos % inp.chunk), Len(inp.data) - pos))

\* the source fills every read up to the number of bytes asked for
FillsReads(inp) == inp.chunk = 0

\* BufReader::with_capacity(R_BYTES - 1, input)
CapacityShort == R_BYTES - 1

\* BufReader::with_capacity(R_BYTES, input)
Capacity == R_BYTES

\* the reader's buffer is empty: the valid bytes are buf[pos..cap]
with_capacity == [buf |-> <<>>, pos |-> 0, cap |-> 0]

\* BufReader::fill_buf, when the read it issues returns bytes got
fill_buf(r, got) ==
  IF r.pos = r.cap THEN [buf |-> got, pos |-> 0, cap |-> Len(got)] ELSE r

\* the slice fill_buf returns
Filled(r) == SubSeq(r.buf, r.pos + 1, r.cap)

\* BufReader::consume(amt)
consume(r, amt) == [r EXCEPT !.pos = Min(r.pos + amt, r.cap)]

\* if !last_block { input.consume(R_BYTES) } else { break }
AfterBlock(r, last_block) ==
  IF ~last_block
  THEN [rd |-> consume(r, R_BYTES), pc |-> "loop"]
  ELSE [rd |-> r, pc |-> "squeeze"]

(***************************************************************************)
(* Inputs                                                                  *)
(***************************************************************************)
MaxLen == 216
ShortChunk == 5
LongChunk == 100
MaxCalls == 3

\* the tests' 72-byte block "0123456789..."
block == [k \in 1..R_BYTES |-> 48 + ((k - 1) % 10)]

\* the first n bytes of block, block, block, ...
Blocks(n) == [k \in 1..n |-> block[((k - 1) % R_BYTES) + 1]]

Datas == {Blocks(n) : n \in 0..MaxLen} \cup {<<65>>, <<97>>, block \o <<50>>}

Streams == [data : Datas, chunk : {0, ShortChunk, LongChunk}]

ReuseStreams ==
  [data : {<<>>, <<65>>, block \o <<50>>, block \o block}, chunk : {0}]
    \cup [data : {block \o block}, chunk : {ShortChunk, LongChunk}]

\* Where a call's memory is: the BufReader's heap buffer (buf), the stack
\* array last, and the Digest the call writes (self)
Layout == [buf : Addrs, last : Addrs, self : Addrs]

AlignedLayout == [buf |-> 0, last |-> 0, self |-> 0]

\* every stream with all three aligned, and the streams of at most one full
\* block and one byte with each of the three at an aligned, an odd and a
\* 4-aligned address
Layouts == [buf : {0, 1, 4}, last : {0, 1, 4}, self : {0, 1, 4}]

LayoutStreams == [data : {<<>>, <<65>>, block, block \o <<50>>}, chunk : {0}]

Calls ==
  [inp : Streams, mem : {AlignedLayout}] \cup [inp : LayoutStreams, mem : Layouts]

ReuseLayouts ==
  { [AlignedLayout EXCEPT !.buf = 1],
    [AlignedLayout EXCEPT !.last = 1],
    [AlignedLayout EXCEPT !.self = 4] }

ReuseCalls ==
  [inp : ReuseStreams, mem : {AlignedLayout}]
    \cup [inp : {[data |-> block \o <<50>>, chunk |-> 0]}, mem : ReuseLayouts]

(***************************************************************************)
(* State                                                                   *)
(***************************************************************************)
VARIABLES
  pc,        \* "idle", "loop" (line 28), "squeeze" (line 61), "returned",
             \* "aborted" (the process was aborted in the call)
  api,       \* the entry point of the call: "with_512" or "keccak_512"
  self,      \* the bytes of the Digest keccak_512 is called on
  entry,     \* self as it was when the call started
  input,     \* the stream of the call
  mem,       \* the addresses of the call's buffers and Digest, modulo 8
  spos,      \* the number of bytes the stream has delivered
  rd,        \* the BufReader: buf, pos, cap
  state,     \* the 25 lanes
  readLog,   \* the reads issued on the stream: [ok, n]
  absorbed,  \* the calls of xor_lanes: [raw, block, padded]
  perms,     \* the number of runs of keccak_f
  result,    \* what keccak_512 returned: "none", "Ok", "Err"
  ret,       \* what with_512 returned: [kind, digest]
  calls,     \* the number of calls started
  memo,      \* the <<stream, digest>> pairs with_512 returned Ok with
  cmp,       \* a comparison of two Digests: lhs, rhs, done, result, examined
  core       \* an application of a lane operation: op, arg, buf, out

vars == <<pc, api, self, entry, input, mem, spos, rd, state, readLog, absorbed,
          perms, result, ret, calls, memo, cmp, core>>

zero_state == [i \in 0..(LANES - 1) |-> {}]

NoStream == [data |-> <<>>, chunk |-> 0]

DriverIdle ==
  /\ pc = "idle"
  /\ api = "none"
  /\ self = zeroed
  /\ entry = zeroed
  /\ input = NoStream
  /\ mem = AlignedLayout
  /\ spos = 0
  /\ rd = with_capacity
  /\ state = zero_state
  /\ readLog = <<>>
  /\ absorbed = <<>>
  /\ perms = 0
  /\ result = "none"
  /\ ret = [kind |-> "none", digest |-> <<>>]
  /\ calls = 0
  /\ memo = {}

CmpIdle ==
  cmp = [lhs |-> zeroed, rhs |-> zeroed, done |-> FALSE, result |-> FALSE, examined |-> 0]

CoreIdle ==
  core = [op |-> "none", arg |-> zero_state, buf |-> <<>>, addr |-> 0, out |-> zero_state]

Init == DriverIdle /\ CmpIdle /\ CoreIdle

(***************************************************************************)
(* with_512 and keccak_512                                                 *)
(***************************************************************************)

\* let ref mut state = [0; LANES]: the lanes a call starts from, whatever
\* the previous call left
FreshState(old) == zero_state

\* the entry of keccak_512, up to the loop
Begin(inp, kind, digest, layout) ==
  /\ pc' = "loop"
  /\ api' = kind
  /\ self' = digest
  /\ entry' = digest
  /\ input' = inp
  /\ mem' = layout
  /\ spos' = 0
  /\ rd' = with_capacity
  /\ state' = FreshState(state)
  /\ readLog' = <<>>
  /\ absorbed' = <<>>
  /\ perms' = 0
  /\ result' = "none"
  /\ calls' = calls + 1
  /\ UNCHANGED <<ret, memo, cmp, core>>

\* with_512: let mut digest = Self::zeroed(); try!(digest.keccak_512(input))
With512(inp, layout) ==
  /\ pc = "idle"
  /\ Begin(inp, "with_512", zeroed, layout)

\* keccak_512 called again on the Digest the caller holds, wherever the
\* caller has it by now
Keccak512(inp, layout) ==
  /\ pc = "returned"
  /\ calls < MaxCalls
  /\ Begin(inp, "keccak_512", self, layout)

\* try!(input.fill_buf()) with a read that fails, and the error treated as
\* end-of-stream
ReadFailsSwallowed ==
  /\ pc = "loop"
  /\ rd.pos = rd.cap
  /\ readLog' = Append(readLog, [ok |-> FALSE, n |-> 0])
  /\ pc' = "squeeze"
  /\ UNCHANGED <<api, self, entry, input, mem, spos, rd, state, absorbed, perms,
                 result, ret, calls, memo, cmp, core>>

\* try!(input.fill_buf()) with a read that fails: keccak_512 returns the
\* error, and so does with_512
ReadFails ==
  /\ pc = "loop"
  /\ rd.pos = rd.cap
  /\ readLog' = Append(readLog, [ok |-> FALSE, n |-> 0])
  /\ result' = "Err"
  /\ ret' = IF api = "with_512" THEN [kind |-> "Err", digest |-> <<>>] ELSE ret
  /\ pc' = "returned"
  /\ UNCHANGED <<api, self, entry, input, mem, spos, rd, state, absorbed, perms,
                 calls, memo, cmp, core>>

\* one iteration of the loop whose fill_buf succeeds.  xor_lanes reads the
\* block through a Lane pointer: the BufReader's buffer from the position the
\* slice starts at, or the array last.  If xor_lanes aborts, the process ends
\* there, after the read and before any lane is changed.
LoopBlock ==
  /\ pc = "loop"
  /\ LET reads == rd.pos = rd.cap
         n == IF reads THEN ReadCount(input, spos, Capacity) ELSE 0
         got == SubSeq(input.data, spos + 1, spos + n)
         r1 == fill_buf(rd, got)
         buf == Filled(r1)
         consumed == Len(buf)
         last_block == LastBlock(consumed)
         xored == IF last_block THEN Pad(buf) ELSE buf
         addr == IF last_block THEN mem.last ELSE mem.buf + r1.pos
         after == AfterBlock(r1, last_block)
     IN /\ spos' = spos + n
        /\ readLog' = IF reads THEN Append(readLog, [ok |-> TRUE, n |-> n]) ELSE readLog
        /\ \E o \in xor_lanes(state, xored, addr) :
             IF o.abort
             THEN /\ rd' = r1
                  /\ pc' = "aborted"
                  /\ UNCHANGED <<absorbed, state, perms>>
             ELSE /\ absorbed' = Append(absorbed,
                                        [raw |-> buf, block |-> xored, padded |-> last_block])
                  /\ state' = keccak_f(o.a)
                  /\ perms' = perms + 1
                  /\ rd' = after.rd
                  /\ pc' = after.pc
  /\ UNCHANGED <<api, self, entry, input, mem, result, ret, calls, memo, cmp, core>>

\* the output loop and Ok(()); with_512 then returns Ok(digest).  If the
\* first store aborts, the process ends with the Digest as it was.
Finish ==
  /\ pc = "squeeze"
  /\ \E o \in Extract(state, self, mem.self) :
       IF o.abort
       THEN /\ pc' = "aborted"
            /\ UNCHANGED <<self, result, ret, memo>>
       ELSE /\ self' = o.digest
            /\ result' = "Ok"
            /\ ret' = IF api = "with_512" THEN [kind |-> "Ok", digest |-> o.digest] ELSE ret
            /\ memo' = IF api = "with_512" THEN memo \cup {<<input, o.digest>>} ELSE memo
            /\ pc' = "returned"
  /\ UNCHANGED <<api, entry, input, mem, spos, rd, state, readLog, absorbed, perms,
                 calls, cmp, core>>

Next ==
  \/ \E c \in Calls : With512(c.inp, c.mem)
  \/ ReadFails
  \/ LoopBlock
  \/ Finish

Spec == Init /\ [][Next]_vars

FairSpec == Spec /\ WF_vars(Next)

NextReuse ==
  \/ \E c \in ReuseCalls : With512(c.inp, c.mem)
  \/ \E c \in ReuseCalls : Keccak512(c.inp, c.mem)
  \/ ReadFails
  \/ LoopBlock
  \/ Finish

SpecReuse == Init /\ [][NextReuse]_vars

(***************************************************************************)
(* Digest equality on its own: the two Digests are drawn at the start      *)
(***************************************************************************)
DigestWith(p, v) == [zeroed EXCEPT ![p] = v]

EqLeft == {zeroed, DigestWith(1, 14), DigestWith(OUTPUT_LEN, 14)}

EqRight == {zeroed} \cup {DigestWith(p, 14) : p \in 1..OUTPUT_LEN}

InitEq ==
  /\ DriverIdle
  /\ CoreIdle
  /\ cmp \in [lhs : EqLeft, rhs : EqRight, done : {FALSE}, result : {FALSE}, examined : {0}]

\* lhs == rhs
EqStep ==
  /\ ~cmp.done
  /\ LET r == eq(cmp.lhs, cmp.rhs)
     IN cmp' = [cmp EXCEPT !.done = TRUE, !.result = r.result, !.examined = r.examined]
  /\ UNCHANGED <<pc, api, self, entry, input, mem, spos, rd, state, readLog, absorbed,
                 perms, result, ret, calls, memo, core>>

SpecEq == InitEq /\ [][EqStep]_vars

(***************************************************************************)
(* The lane operations on their own: a state and a buffer are drawn at     *)
(* the start and one operation is applied to them                          *)
(***************************************************************************)
MaxCore == 4

\* states the permutation reaches from the zero state
IterF[k \in 0..(MaxCore + 1)] == IF k = 0 THEN zero_state ELSE keccak_f(IterF[k - 1])

CoreStates == {IterF[k] : k \in 0..MaxCore} \cup {[i \in 0..(LANES - 1) |-> BitPos]}

CoreBufs ==
  { block,
    Pad(<<>>),
    Pad(SubSeq(block, 1, R_BYTES - 1)),
    [k \in 1..R_BYTES |-> 255],
    block \o <<50>>,
    [k \in 1..(R_BYTES + 8) |-> (7 * k) % 256] }

InitCore ==
  /\ DriverIdle
  /\ CmpIdle
  /\ core \in [op : {"none"}, arg : CoreStates, buf : CoreBufs, addr : Addrs,
               out : {zero_state}]

\* xor_lanes(arg, buf) with buf at address addr: it returns with the lanes
\* out, or the process is aborted in it
ApplyXorLanes ==
  /\ core.op = "none"
  /\ \E o \in xor_lanes(core.arg, core.buf, core.addr) :
       core' = [core EXCEPT !.op = IF o.abort THEN "aborted" ELSE "xor_lanes",
                            !.out = o.a]
  /\ UNCHANGED <<pc, api, self, entry, input, mem, spos, rd, state, readLog, absorbed,
                 perms, result, ret, calls, memo, cmp>>

ApplyRhoPi ==
  /\ core.op = "none"
  /\ core' = [core EXCEPT !.op = "rho_pi", !.out = RhoPi(core.arg)]
  /\ UNCHANGED <<pc, api, self, entry, input, mem, spos, rd, state, readLog, absorbed,
                 perms, result, ret, calls, memo, cmp>>

NextCore == ApplyXorLanes \/ ApplyRhoPi

SpecCore == InitCore /\ [][NextCore]_vars

(***************************************************************************)
(* Properties                                                              *)
(***************************************************************************)
ReturnedOk == pc = "returned" /\ result = "Ok"

\* the raw bytes of absorbed block i when data is cut every R_BYTES bytes
Cut(data, i) == SubSeq(data, (R_BYTES * (i - 1)) + 1, Min(R_BYTES * i, Len(data)))

\* log is data cut into floor(n / R_BYTES) unpadded full blocks followed by
\* one padded block holding the remainder
CutIntoBlocks(log, data) ==
  LET full == Len(data) \div R_BYTES
  IN /\ Len(log) = full + 1
     /\ \A i \in 1..full :
          /\ ~log[i].padded
          /\ log[i].block = Cut(data, i)
     /\ log[full + 1].padded
     /\ log[full + 1].raw = Cut(data, full + 1)

\* C1: when the source fills every read, a call that returns Ok has absorbed
\* exactly floor(n / R_BYTES) + 1 blocks and run keccak_f once per block: the
\* input's full blocks unpadded, then one padded block with the remaining
\* bytes (none when n is a multiple of R_BYTES).
C1_BlockCount ==
  (ReturnedOk /\ FillsReads(input)) =>
     /\ CutIntoBlocks(absorbed, input.data)
     /\ perms = (Len(input.data) \div R_BYTES) + 1

C1_Witness ==
  /\ ReturnedOk
  /\ FillsReads(input)
  /\ Len(input.data) = 2 * R_BYTES
  /\ Len(absorbed) = 3
  /\ absorbed[3].raw = <<>>
  /\ perms = 3

\* the layout of a padded block built from the consumed bytes raw
PaddedLayout(raw, blk) ==
  LET consumed == Len(raw)
  IN /\ consumed < R_BYTES
     /\ Len(blk) = R_BYTES
     /\ \A k \in 1..consumed : blk[k] = raw[k]
     /\ IF consumed = R_BYTES - 1
        THEN blk[R_BYTES] = 129
        ELSE /\ blk[consumed + 1] = 1
             /\ \A k \in (consumed + 2)..(R_BYTES - 1) : blk[k] = 0
             /\ blk[R_BYTES] = 128

\* C2: every padded block absorbed is R_BYTES long: the consumed bytes, then
\* 0x01, zeros, and 0x80 in the last byte (0x81 when consumed = R_BYTES - 1).
C2_PaddedBlock ==
  \A i \in 1..Len(absorbed) :
     absorbed[i].padded => PaddedLayout(absorbed[i].raw, absorbed[i].block)

C2_Witness ==
  /\ ReturnedOk
  /\ \E i \in 1..Len(absorbed) :
       /\ absorbed[i].padded
       /\ Len(absorbed[i].raw) = R_BYTES - 1
       /\ absorbed[i].block[R_BYTES] = 129

\* C3: whatever the sizes of the source's reads, a call that returns Ok has
\* absorbed the input cut into consecutive R_BYTES blocks and the padded
\* remainder.
C3_ChunkingIndependent == ReturnedOk => CutIntoBlocks(absorbed, input.data)

\* the inputs and digests of test::known_512_digests
TestVectors ==
  { [data |-> <<>>,
     hex |-> "0eab42de4c3ceb9235fc91acffe746b29c29a8c366b7c60e4e67c466f36a4304c00fa9caf9d87976ba469bcbe06713b435f091ef2769fb160cdab33d3670680e"],
    [data |-> <<65>>,
     hex |-> "421a35a60054e5f383b6137e43d44e998f496748cc77258240ccfaa8730b51f40cf47c1bc09c728a8cd4f096731298d51463f15af89543fed478053346260c38"],
    [data |-> SubSeq(block, 1, 69),
     hex |-> "5308edb15b386c77921367c483b65c7d3fe23c4b423ddb8df4a5b7f0de40b0ca60b3de5dbb8b153252bd1e66cdd10c1009cdd2ceb23b61bfc44f8ca4209aa75a"],
    [data |-> SubSeq(block, 1, 70),
     hex |-> "c5eba2e8c8fe3a045d3de364a4581f65ad9e54756b58b957364304d209ff10783e58c88075efa3d92cdfa2c243247d8ff7ea360495632b023fa06cfabbc9d30a"],
    [data |-> SubSeq(block, 1, 71),
     hex |-> "3173e7abc754a0b2909410d78986428a9183e996864af02f421d273d9fa1b4e4a5b14e2998b20767712f53a01ff8f6ae2c3e71e51e2c0f24257b03e6da09eb77"],
    [data |-> block,
     hex |-> "90b1d032c3bf06dcc78a46fe52054bab1250600224bfc6dfbfb40a7877c55e89bb982799a2edf198568a4166f6736678b45e76b12fac813cfdf0a76714e5eae8"],
    [data |-> block \o <<50>>,
     hex |-> "7ecc23723c40dc1154611e2ba1752a5cb6082f592a10b8e3f3817ea634e40d272f2ecf72a99374860c311b8cb6cdadcc862198ac394c7f49a36687fb99f93501"],
    [data |-> block \o block,
     hex |-> "bad62fb72bc1d1ebc117523791dd49a03a65ffd3805363e902378256d34f1d4a6c6afdad5aeaea3bfc1a92fd10c3d97d8ad6b5df85e5a0cd7eb43770356dfcc2"],
    [data |-> block \o block \o block,
     hex |-> "d22e9b6978a012bcb8a6a6e44c919336d8e847994190dbdf839ba10d8fc9c231a33bab45e90b2ceaa60d117331b617309c6f9d07c7bc2aa0a54c1d4622d6388d"] }

\* C5: with_512 on each input of the test, read from a slice, returns the
\* Digest whose lowercase hex is the test's reference value.
C5_KnownDigests ==
  (ReturnedOk /\ api = "with_512" /\ FillsReads(input)) =>
     \A t \in TestVectors :
        t.data = input.data => (ret.kind = "Ok" /\ LowerHex(ret.digest) = t.hex)

C5_Witness ==
  /\ ReturnedOk
  /\ api = "with_512"
  /\ FillsReads(input)
  /\ input.data = block \o block \o block
  /\ LowerHex(ret.digest) =
       "d22e9b6978a012bcb8a6a6e44c919336d8e847994190dbdf839ba10d8fc9c231a33bab45e90b2ceaa60d117331b617309c6f9d07c7bc2aa0a54c1d4622d6388d"

\* C4: a failed read ends the call at once: it is the last read issued,
\* keccak_512 has returned Err with the Digest as it was when the call
\* started, nothing was absorbed after the blocks of the reads before it,
\* and with_512 has returned Err and no Digest.
C4_ReadErrorAborts ==
  \A i \in 1..Len(readLog) :
     ~readLog[i].ok =>
        /\ i = Len(readLog)
        /\ pc = "returned"
        /\ result = "Err"
        /\ self = entry
        /\ Len(absorbed) = i - 1
        /\ perms = i - 1
        /\ api = "with_512" => (ret.kind = "Err" /\ ret.digest = <<>>)

C4_Witness ==
  /\ result = "Err"
  /\ api = "keccak_512"
  /\ entry # zeroed
  /\ self = entry
  /\ Len(readLog) = 3
  /\ Len(absorbed) = 2

\* C7: a call that returns Ok leaves the Digest equal to the one with_512
\* returned for the same input bytes, whatever the Digest held when the call
\* started and however the bytes were delivered.
C7_InputOnly ==
  ReturnedOk => \A m \in memo : m[1].data = input.data => self = m[2]

\* C6: eq examines all OUTPUT_LEN byte pairs whatever the two Digests are.
C6_ConstantTime == cmp.done => cmp.examined = OUTPUT_LEN

\* C8: after xor_lanes has returned, wherever the buffer is, only the rate
\* lanes have changed: bit b of lane i < R_BYTES / 8 is flipped exactly when
\* bit b % 8 of buffer byte 8i + b / 8 is 1 (the little-endian value of bytes
\* 8i .. 8i+7), and lanes 9 .. 24 keep their values.
C8_XorLanesFrame ==
  core.op = "xor_lanes" =>
     /\ Len(core.buf) >= R_BYTES
     /\ \A i \in 0..((R_BYTES \div 8) - 1) : \A b \in BitPos :
          (b \in core.out[i]) <=>
             ((b \in core.arg[i]) # ByteBit(core.buf[(8 * i) + (b \div 8) + 1], b % 8))
     /\ \A i \in (R_BYTES \div 8)..(LANES - 1) : core.out[i] = core.arg[i]

C8_Witness ==
  /\ core.op = "xor_lanes"
  /\ Aligned(core.addr)
  /\ core.arg # zero_state
  /\ core.buf = block
  /\ core.out # core.arg
  /\ core.out[R_BYTES \div 8] = core.arg[R_BYTES \div 8]
  /\ core.out[(R_BYTES \div 8) - 1] # core.arg[(R_BYTES \div 8) - 1]

\* the lane whose value step k of rho and pi moves: lane 1, then the lane
\* the step before wrote
RhoPiSource(k) == IF k = 0 THEN 1 ELSE PI_LOOKUP[k]

\* C9: rho and pi leave lane 0 alone, write each of lanes 1 .. 24 exactly
\* once, and give lane PI_LOOKUP[k] the value the source lane had before
\* the step, rotated left by ROTATION_OFFSETS[k]; the old state is recovered
\* from the new one by rotating back.
C9_RhoPiNoClobber ==
  core.op = "rho_pi" =>
     /\ core.out[0] = core.arg[0]
     /\ {PI_LOOKUP[k + 1] : k \in 0..(LANES - 2)} = 1..(LANES - 1)
     /\ \A k \in 0..(LANES - 2) :
          /\ core.out[PI_LOOKUP[k + 1]] =
               RotateLeft(core.arg[RhoPiSource(k)], ROTATION_OFFSETS[k + 1])
          /\ core.arg[RhoPiSource(k)] =
               RotateLeft(core.out[PI_LOOKUP[k + 1]], 64 - ROTATION_OFFSETS[k + 1])

C9_Witness ==
  /\ core.op = "rho_pi"
  /\ core.arg = IterF[1]
  /\ core.out # core.arg
  /\ core.out[PI_LOOKUP[1]] = RotateLeft(core.arg[1], ROTATION_OFFSETS[1])
  /\ core.out[1] = RotateLeft(core.arg[PI_LOOKUP[LANES - 2]], ROTATION_OFFSETS[LANES - 1])

\* what holds of the reads and blocks of a call at every point of it
C10_Safety ==
  /\ Len(absorbed) = perms
  /\ \A i \in 1..(Len(readLog) - 1) : readLog[i].ok /\ readLog[i].n = R_BYTES
  /\ \A i \in 1..(Len(absorbed) - 1) : ~absorbed[i].padded
  /\ pc = "loop" =>
       /\ Len(absorbed) = Len(readLog)
       /\ \A i \in 1..Len(readLog) : readLog[i].ok /\ readLog[i].n = R_BYTES
       /\ \A i \in 1..Len(absorbed) : ~absorbed[i].padded
  /\ (pc = "squeeze" \/ ReturnedOk) =>
       LET last == Len(readLog)
       IN /\ last >= 1
          /\ readLog[last].ok
          /\ readLog[last].n < R_BYTES
          /\ Len(absorbed) = last
          /\ absorbed[last].padded
          /\ Len(absorbed[last].raw) = readLog[last].n
          /\ spos = (R_BYTES * (last - 1)) + readLog[last].n
          /\ rd = [buf |-> absorbed[last].raw, pos |-> 0, cap |-> readLog[last].n]

\* C10: a call that has reached its loop returns (Ok or Err); the loop ends
\* at the first read of fewer than R_BYTES bytes, whose block is padded,
\* absorbed and permuted once, and nothing is read, consumed or absorbed
\* after it.
C10_Terminates ==
  /\ []C10_Safety
  /\ (pc = "loop") ~> (pc = "returned")

=============================================================================
